---- MODULE Spec2Model ----
(***************************************************************************)
(* Model of the quadtree image compressor (compression/quadtree.py with    *)
(* the Quadrant of compression/image/quadrant.py).                          *)
(*                                                                          *)
(* A QuadTree is constructed over a raster (height x width x 3, 8 bit),     *)
(* the constructor builds the whole tree; afterwards the tree can be        *)
(* rendered (get_compressed_image), written to a ".lima" text file          *)
(* (build_compressed_file) and a ".lima" file can be parsed back to a       *)
(* raster (parse_compressed_file).  Text is modelled as a sequence of       *)
(* one-character strings, objects (Quadrants) live in a heap indexed by     *)
(* the path from the root.                                                  *)
(***************************************************************************)
EXTENDS Integers, Sequences, FiniteSets, TLC

VARIABLES
    image,          \* self.__image: [height, width, px], px[<<y, x>>] = <<c0, c1, c2>>
    threshold,      \* self.__threshold
    min_quad_size,  \* self.__min_quad_size
    nodes,          \* heap of Quadrant objects: path from the root -> object
    pc,             \* "new" before QuadTree.__init__ ran, "built" after, "static" when no tree exists
    file,           \* the file system: <<>> or a record [path, content]
    rendered,       \* last value returned by get_compressed_image, or <<>>
    parsed,         \* last value returned by parse_compressed_file, or <<>>
    error,          \* the exception the last operation raised, "none" when it returned
    text,           \* the text handed to HuffmanEncoding.encoding
    encoded,        \* the bit string encoding returned
    tree,           \* the Huffman tree encoding returned: a HuffNode or <<>> (None)
    decoded         \* the text decoding returned

\* The state of the Huffman coder.
huffmanVars == <<text, encoded, tree, decoded>>

vars == <<image, threshold, min_quad_size, nodes, pc, file, rendered, parsed,
          error, text, encoded, tree, decoded>>

----------------------------------------------------------------------------
(* Bounds of the model.                                                    *)

\* Largest width and height of the rasters that are enumerated exhaustively.
MaxDim == 5

\* Longest text handed to the Huffman coder.
MaxTextLen == 4

\* Python's None (threshold: int = None); every real threshold is >= 0.
None == -1

\* bool(v) of an optional number: None and 0 are falsy.
Truthy(v) == v # None /\ v # 0

\* A Python list built by a comprehension: the sequence with its elements
\* evaluated.
List(f) == f \o <<>>

Max(a, b) == IF a >= b THEN a ELSE b
Min(a, b) == IF a <= b THEN a ELSE b

----------------------------------------------------------------------------
(* Rasters.                                                                *)

Black == <<0, 0, 0>>
White == <<255, 255, 255>>
Teal  == <<10, 21, 33>>
Palette == {Black, White, Teal}

Patterns == {"rows", "cols", "checker", "corner"}

\* The pixel at column x, row y of a w x h raster painted with pattern p.
PatternPixel(p, x, y, w, h, c1, c2) ==
    CASE p = "uniform" -> c1
      [] p = "rows"    -> IF y < h \div 2 THEN c1 ELSE c2
      [] p = "cols"    -> IF x < w \div 2 THEN c1 ELSE c2
      [] p = "checker" -> IF (x + y) % 2 = 0 THEN c1 ELSE c2
      [] p = "corner"  -> IF x = 0 /\ y = 0 THEN c1 ELSE c2

MakeImage(p, w, h, c1, c2) ==
    [height |-> h, width |-> w,
     px |-> [yx \in (0 .. h - 1) \X (0 .. w - 1) |->
                PatternPixel(p, yx[2], yx[1], w, h, c1, c2)]]

\* The sizes of the rasters painted with every pattern.
SmallSizes == (1 .. MaxDim) \X (1 .. MaxDim)

ColorPairs == {<<Black, White>>, <<Teal, White>>}

\* Rasters of every small size, uniform or painted with a pattern.
SmallImages ==
    {MakeImage("uniform", s[1], s[2], c, c) : s \in SmallSizes, c \in Palette}
    \cup
    {MakeImage(p, s[1], s[2], cc[1], cc[2]) :
        p \in Patterns, s \in SmallSizes, cc \in ColorPairs}

\* 16 x 16 rasters: a uniform one and a black and white checkerboard.
LargeImages ==
    {MakeImage("uniform", 16, 16, Teal, Teal),
     MakeImage("checker", 16, 16, Black, White)}

\* The configurations: <<image, threshold, min_quad_size>>.
Thresholds == {None, 0, 10, 120}
MinQuadSizes == {0, 1, 2}
LargeThresholds == {None, 10}
LargeMinQuadSizes == {1, 4}

Inputs ==
    (SmallImages \X Thresholds \X MinQuadSizes)
    \cup (LargeImages \X LargeThresholds \X LargeMinQuadSizes)

\* np.zeros((h, w, 3)) / np.zeros_like(image)
Zeros(h, w) ==
    [height |-> h, width |-> w,
     px |-> [yx \in (0 .. h - 1) \X (0 .. w - 1) |-> <<0, 0, 0>>]]

----------------------------------------------------------------------------
(* Quadrant (compression/image/quadrant.py).                               *)

\* Quadrant.__init__
Quadrant(x, y, width, height, depth) ==
    [x |-> x, y |-> y, width |-> width, height |-> height,
     depth |-> depth, children |-> <<>>, color |-> <<>>]

\* Quadrant.get_area
get_area(q) == q.width * q.height

\* sum(values[lo .. hi]) of a sequence of numbers.
RECURSIVE SumRange(_, _, _)
SumRange(values, lo, hi) ==
    IF lo > hi THEN 0
    ELSE IF lo = hi THEN values[lo]
    ELSE LET mid == (lo + hi) \div 2
         IN  SumRange(values, lo, mid) + SumRange(values, mid + 1, hi)

\* Quadrant.get_quadrant_from_image: the pixels of
\* image[y : y + height, x : x + width], row by row.
get_quadrant_from_image(q, img) ==
    [i \in 1 .. get_area(q) |->
        img.px[<<q.y + ((i - 1) \div q.width), q.x + ((i - 1) % q.width)>>]]

\* Sum of F over the pixels of get_quadrant_from_image(q, img).
RegionSum(q, img, F(_)) ==
    LET region == get_quadrant_from_image(q, img)
        values == [i \in 1 .. get_area(q) |-> F(region[i])]
    IN SumRange(values, 1, get_area(q))

\* MeanOfRegion dividing by one more than the number of pixels.
MeanOfRegion_offByOne(q, img) ==
    [ch \in 1 .. 3 |->
        LET Chan(p) == p[ch] IN RegionSum(q, img, Chan) \div (get_area(q) + 1)]

\* [int(p) for p in np.mean(quadrant, axis=(0, 1))]: the truncated mean of
\* each channel over the region.
MeanOfRegion(q, img) ==
    [ch \in 1 .. 3 |->
        LET Chan(p) == p[ch] IN RegionSum(q, img, Chan) \div get_area(q)]

\* Quadrant.calc_mean_color: the cached color when it is set ("if not
\* self.__color"), else the mean, which is then cached.  Returns the object
\* after the call; its color field is the value returned.
calc_mean_color(q, img) ==
    IF q.color = <<>> THEN [q EXCEPT !.color = MeanOfRegion(q, img)] ELSE q

\* The sum of (quadrant - mean_color) ** 2 over all pixels and channels.
SquaredDeviation(q, img, mean) ==
    LET Dev(p) == (p[1] - mean[1]) * (p[1] - mean[1])
                + (p[2] - mean[2]) * (p[2] - mean[2])
                + (p[3] - mean[3]) * (p[3] - mean[3])
    IN RegionSum(q, img, Dev)

\* Quadrant.calc_error(img) <= t, for an integer t >= 0:
\* sqrt(mean(dev ** 2)) <= t  iff  sum(dev ** 2) <= t * t * (3 * area).
\* The mean colour used is the one calc_mean_color returns.
ErrorAtMost(q, img, t) ==
    SquaredDeviation(q, img, calc_mean_color(q, img).color)
        <= t * t * 3 * get_area(q)

\* calc_error(img) = 0
ErrorIsZero(q, img) == ErrorAtMost(q, img, 0)

----------------------------------------------------------------------------
(* QuadTree.__build_tree (compression/quadtree.py).                        *)

\* np.floor(n / 2).astype(int) and np.ceil(n / 2).astype(int)
FloorHalf(n) == n \div 2

\* CeilHalf with the halves not adding up: floor instead of ceil.
CeilHalf_floor(n) == n \div 2

CeilHalf(n) == (n + 1) \div 2

\* "if self.__threshold and quadrant.calc_error(self.__image) <= self.__threshold":
\* q is the node after calc_error ran on it.
ThresholdGuard(q, img, t) == Truthy(t) /\ ErrorAtMost(q, img, t)

\* "if bottom_width < 1 or bottom_height < 1"
DegenerateGuard(bottom_width, bottom_height) ==
    bottom_width < 1 \/ bottom_height < 1

\* SizeFloorGuard comparing with < instead of <=.
SizeFloorGuard_strict(k, bottom_width, bottom_height) ==
    Truthy(k) /\ (bottom_width < k \/ bottom_height < k)

\* SizeFloorGuard of the variant that stops only when both dimensions breach
\* the floor.
SizeFloorGuard_and(k, bottom_width, bottom_height) ==
    Truthy(k) /\ (bottom_width <= k /\ bottom_height <= k)

\* "if self.__min_quad_size and (bottom_width <= self.__min_quad_size or
\*  bottom_height <= self.__min_quad_size)"
SizeFloorGuard(k, bottom_width, bottom_height) ==
    Truthy(k) /\ (bottom_width <= k \/ bottom_height <= k)

\* ChildDepth counting two levels per split.
ChildDepth_two(d) == d + 2

\* Depth given to the children of a node of depth d.
ChildDepth(d) == d + 1

\* SplitQuadrants with top_right and bottom_left attached in the other order.
SplitQuadrants_swapped(q) ==
    LET bottom_width  == FloorHalf(q.width)
        top_width     == CeilHalf(q.width)
        bottom_height == FloorHalf(q.height)
        top_height    == CeilHalf(q.height)
        d             == ChildDepth(q.depth)
    IN << Quadrant(q.x, q.y, bottom_width, bottom_height, d),
          Quadrant(q.x, q.y + bottom_height, bottom_width, top_height, d),
          Quadrant(q.x + bottom_width, q.y, top_width, bottom_height, d),
          Quadrant(q.x + bottom_width, q.y + bottom_height, top_width,
                   top_height, d) >>

\* The four Quadrants the builder creates for a node that is split:
\* top_left, top_right, bottom_left, bottom_right.
SplitQuadrants(q) ==
    LET bottom_width  == FloorHalf(q.width)
        top_width     == CeilHalf(q.width)
        bottom_height == FloorHalf(q.height)
        top_height    == CeilHalf(q.height)
        d             == ChildDepth(q.depth)
    IN << Quadrant(q.x, q.y, bottom_width, bottom_height, d),
          Quadrant(q.x + bottom_width, q.y, top_width, bottom_height, d),
          Quadrant(q.x, q.y + bottom_height, bottom_width, top_height, d),
          Quadrant(q.x + bottom_width, q.y + bottom_height, top_width,
                   top_height, d) >>

\* Whether __build_tree returns before creating children; q is the node
\* after the threshold test ran on it.
StopsAt(q, img, t, k) ==
    \/ ThresholdGuard(q, img, t)
    \/ DegenerateGuard(FloorHalf(q.width), FloorHalf(q.height))
    \/ SizeFloorGuard(k, FloorHalf(q.width), FloorHalf(q.height))

\* __build_tree with lines 140-147 moved before line 137: the size guards
\* decide first, and calc_error only runs on a node they let through.
RECURSIVE build_tree_guardsFirst(_, _, _, _, _)
build_tree_guardsFirst(img, t, k, id, q0) ==
    IF \/ DegenerateGuard(FloorHalf(q0.width), FloorHalf(q0.height))
       \/ SizeFloorGuard(k, FloorHalf(q0.width), FloorHalf(q0.height))
    THEN id :> q0
    ELSE LET q == IF Truthy(t) THEN calc_mean_color(q0, img) ELSE q0
         IN  IF ThresholdGuard(q, img, t)
             THEN id :> q
             ELSE LET kids == SplitQuadrants(q)
                      ids  == [i \in 1 .. 4 |-> Append(id, i)]
                  IN  (id :> [q EXCEPT !.children = ids])
                      @@ build_tree_guardsFirst(img, t, k, ids[1], kids[1])
                      @@ build_tree_guardsFirst(img, t, k, ids[2], kids[2])
                      @@ build_tree_guardsFirst(img, t, k, ids[3], kids[3])
                      @@ build_tree_guardsFirst(img, t, k, ids[4], kids[4])

\* __build_tree(quadrant): the heap of the subtree of the fresh Quadrant q0
\* stored at address id.  calc_error is only evaluated when the threshold
\* is truthy ("and" short-circuits), and it caches the mean color.
RECURSIVE build_tree(_, _, _, _, _)
build_tree(img, t, k, id, q0) ==
    LET q == IF Truthy(t) THEN calc_mean_color(q0, img) ELSE q0
    IN  IF StopsAt(q, img, t, k)
        THEN id :> q
        ELSE LET kids == SplitQuadrants(q)
                 ids  == [i \in 1 .. 4 |-> Append(id, i)]
             IN  (id :> [q EXCEPT !.children = ids])
                 @@ build_tree(img, t, k, ids[1], kids[1])
                 @@ build_tree(img, t, k, ids[2], kids[2])
                 @@ build_tree(img, t, k, ids[3], kids[3])
                 @@ build_tree(img, t, k, ids[4], kids[4])

\* self.root
root == <<>>

\* QuadTree.__get_children: the leaves below the node at id, depth first in
\* child order, as a sequence of addresses.
RECURSIVE get_children_from(_, _)
get_children_from(heap, id) ==
    IF heap[id].children = <<>>
    THEN <<id>>
    ELSE get_children_from(heap, heap[id].children[1])
         \o get_children_from(heap, heap[id].children[2])
         \o get_children_from(heap, heap[id].children[3])
         \o get_children_from(heap, heap[id].children[4])

\* QuadTree.get_children
get_children(heap) == get_children_from(heap, root)

\* QuadTree.__get_max_depth
RECURSIVE get_max_depth(_, _)
get_max_depth(heap, id) ==
    IF heap[id].children = <<>>
    THEN heap[id].depth
    ELSE Max(Max(Max(Max(0, get_max_depth(heap, heap[id].children[1])),
                     get_max_depth(heap, heap[id].children[2])),
                 get_max_depth(heap, heap[id].children[3])),
             get_max_depth(heap, heap[id].children[4]))

\* QuadTree.max_depth
max_depth(heap) == get_max_depth(heap, root)

----------------------------------------------------------------------------
(* Text: a str is a sequence of one-character strings.                     *)

Digits == <<"0", "1", "2", "3", "4", "5", "6", "7", "8", "9">>

IsDigit(c) == \E d \in 1 .. 10 : Digits[d] = c
DigitValue(c) == (CHOOSE d \in 1 .. 10 : Digits[d] = c) - 1

\* str(n) of an int
RECURSIVE str_int(_)
str_int(n) ==
    IF n < 0 THEN <<"-">> \o str_int(0 - n)
    ELSE IF n < 10 THEN <<Digits[n + 1]>>
    ELSE str_int(n \div 10) \o <<Digits[(n % 10) + 1]>>

\* sep.join(parts[lo .. hi])
RECURSIVE JoinRange(_, _, _, _)
JoinRange(sep, parts, lo, hi) ==
    IF lo > hi THEN <<>>
    ELSE IF lo = hi THEN parts[lo]
    ELSE LET mid == (lo + hi) \div 2
         IN  JoinRange(sep, parts, lo, mid) \o <<sep>>
             \o JoinRange(sep, parts, mid + 1, hi)

\* sep.join(parts)
join(sep, parts) == JoinRange(sep, parts, 1, Len(parts))

\* s[lo .. hi].split(sep): the pieces of both halves, the last piece of the
\* first half running into the first piece of the second.
RECURSIVE SplitRange(_, _, _, _)
SplitRange(s, sep, lo, hi) ==
    IF lo > hi THEN << <<>> >>
    ELSE IF lo = hi THEN (IF s[lo] = sep THEN << <<>>, <<>> >> ELSE << <<s[lo]>> >>)
    ELSE LET mid   == (lo + hi) \div 2
             left  == SplitRange(s, sep, lo, mid)
             right == SplitRange(s, sep, mid + 1, hi)
         IN  SubSeq(left, 1, Len(left) - 1)
             \o << left[Len(left)] \o right[1] >>
             \o Tail(right)

\* s.split(sep) for a one-character sep
split(s, sep) == SplitRange(s, sep, 1, Len(s))

\* s.endswith(suffix)
endswith(s, suffix) ==
    /\ Len(s) >= Len(suffix)
    /\ SubSeq(s, Len(s) - Len(suffix) + 1, Len(s)) = suffix

Whitespace == {" ", "\n", "\t"}

\* s.strip()
RECURSIVE strip(_)
strip(s) ==
    IF s = <<>> THEN s
    ELSE IF s[1] \in Whitespace THEN strip(Tail(s))
    ELSE IF s[Len(s)] \in Whitespace THEN strip(SubSeq(s, 1, Len(s) - 1))
    ELSE s

\* The value of a run of digits and underscores, most significant first.
RECURSIVE DigitsValue(_, _)
DigitsValue(s, n) ==
    IF n = 0 THEN 0
    ELSE IF s[n] = "_" THEN DigitsValue(s, n - 1)
    ELSE DigitValue(s[n]) + 10 * DigitsValue(s, n - 1)

\* int(s): surrounding whitespace is dropped, one sign is allowed, then
\* digits, with single underscores between digits.  [ok, value]; ok = FALSE
\* is ValueError.
int(s) ==
    LET t    == strip(s)
        sgn  == t # <<>> /\ t[1] \in {"+", "-"}
        body == IF sgn THEN Tail(t) ELSE t
        wellFormed ==
            /\ body # <<>>
            /\ \A i \in 1 .. Len(body) : IsDigit(body[i]) \/ body[i] = "_"
            /\ body[1] # "_" /\ body[Len(body)] # "_"
            /\ \A i \in 1 .. Len(body) - 1 : ~(body[i] = "_" /\ body[i + 1] = "_")
    IN  IF ~wellFormed THEN [ok |-> FALSE, value |-> 0]
        ELSE [ok |-> TRUE,
              value |-> IF sgn /\ t[1] = "-"
                        THEN 0 - DigitsValue(body, Len(body))
                        ELSE DigitsValue(body, Len(body))]

Ext == <<".", "l", "i", "m", "a">>

\* os.path.join(save_path, name) for a relative name
path_join(save_path, name) ==
    IF save_path[Len(save_path)] = "/" THEN save_path \o name
    ELSE save_path \o <<"/">> \o name

----------------------------------------------------------------------------
(* Rendering, serialization and parsing.                                   *)

\* The indices a Python slice a:b selects on an axis of length n.
SliceIndices(a, b, n) ==
    LET start == IF a < 0 THEN Max(a + n, 0) ELSE Min(a, n)
        stop  == IF b < 0 THEN Max(b + n, 0) ELSE Min(b, n)
    IN  start .. stop - 1

\* Whether raster[y1:y2, x1:x2, :] includes the pixel yx = <<y, x>>.
InSlice(raster, y1, y2, x1, x2, yx) ==
    /\ yx[1] \in SliceIndices(y1, y2, raster.height)
    /\ yx[2] \in SliceIndices(x1, x2, raster.width)

\* A loop of assignments raster[y1:y2, x1:x2, :] = color over fills[1], ...,
\* fills[n], each a record [y1, y2, x1, x2, color] with a color of three
\* numbers, stored as 8 bit values: a pixel ends with the color of the last
\* assignment that includes it.
FillAll(raster, fills) ==
    [raster EXCEPT !.px =
        [yx \in DOMAIN raster.px |->
            LET hits == {i \in 1 .. Len(fills) :
                            InSlice(raster, fills[i].y1, fills[i].y2,
                                    fills[i].x1, fills[i].x2, yx)}
            IN  IF hits = {} THEN raster.px[yx]
                ELSE LET last == CHOOSE i \in hits : \A j \in hits : j <= i
                     IN  [ch \in 1 .. 3 |-> fills[last].color[ch] % 256]]]

\* QuadTree.get_compressed_image(show_quadrants=False): every leaf gets its
\* mean color (calc_mean_color caches it in the leaf) and its region of the
\* zeroed raster is filled with it.  Yields the heap and the raster after
\* the loop.
get_compressed_image(heap, img) ==
    LET children == get_children(heap)
        after == List([i \in 1 .. Len(children) |->
                          calc_mean_color(heap[children[i]], img)])
        fills == List([i \in 1 .. Len(children) |->
                     [y1 |-> after[i].y, y2 |-> after[i].y + after[i].height,
                      x1 |-> after[i].x, x2 |-> after[i].x + after[i].width,
                      color |-> after[i].color]])
    IN  [heap |-> [id \in DOMAIN heap |->
                      IF heap[id].children = <<>>
                      THEN calc_mean_color(heap[id], img) ELSE heap[id]],
         raster |-> FillAll(Zeros(img.height, img.width), fills)]

\* Quadrant.__str__; only defined when the color is set.
quadrant_str(q) ==
    str_int(q.x) \o <<";">> \o str_int(q.y) \o <<";">>
    \o str_int(q.x + q.width) \o <<";">> \o str_int(q.y + q.height) \o <<";">>
    \o join(",", [ch \in 1 .. Len(q.color) |-> str_int(q.color[ch])])

\* "if not self.__color: raise QuadrantRepresentationError"
StrRaises(q) == q.color = <<>>

\* The text build_compressed_file writes: "<shape[0]>;<shape[1]>&<records>".
compressed_text(heap, img) ==
    LET quadrants == get_children(heap)
        compressed_data ==
            join("&", [i \in 1 .. Len(quadrants) |-> quadrant_str(heap[quadrants[i]])])
    IN  str_int(img.height) \o <<";">> \o str_int(img.width) \o <<"&">>
        \o compressed_data

\* One iteration of the loop of parse_compressed_file, on record quad_data:
\* the exception it raises ("none" when it does not) and the assignment it
\* makes.
ParseRecord(quad_data) ==
    LET quad   == split(quad_data, ";")
        comps  == split(quad[Len(quad)], ",")
        color  == [i \in 1 .. Len(comps) |-> int(comps[i])]
        Fail(e) == [error |-> e, fill |-> <<>>]
    IN  IF \E i \in 1 .. Len(color) : ~color[i].ok THEN Fail("ValueError")
        ELSE IF Len(quad) < 2 THEN Fail("IndexError")
        ELSE IF ~int(quad[2]).ok THEN Fail("ValueError")
        ELSE IF Len(quad) < 4 THEN Fail("IndexError")
        ELSE IF ~int(quad[4]).ok THEN Fail("ValueError")
        ELSE IF ~int(quad[1]).ok THEN Fail("ValueError")
        ELSE IF ~int(quad[3]).ok THEN Fail("ValueError")
        \* a list of one value broadcasts over the channels, a list of
        \* three is the color, any other length cannot be broadcast
        ELSE IF Len(color) \notin {1, 3} THEN Fail("ValueError")
        ELSE [error |-> "none",
              fill |-> [y1 |-> int(quad[2]).value, y2 |-> int(quad[4]).value,
                        x1 |-> int(quad[1]).value, x2 |-> int(quad[3]).value,
                        color |-> IF Len(color) = 1
                                  THEN <<color[1].value, color[1].value, color[1].value>>
                                  ELSE <<color[1].value, color[2].value, color[3].value>>]]

\* The loop over data[1:]: the first record that raises ends the call.
ParseLoop(raster, data) ==
    LET results == List([i \in 1 .. Len(data) - 1 |-> ParseRecord(data[i + 1])])
        failed  == {i \in 1 .. Len(results) : results[i].error # "none"}
    IN  IF failed # {}
        THEN [error |-> results[CHOOSE i \in failed : \A j \in failed : i <= j].error,
              raster |-> <<>>]
        ELSE [error |-> "none",
              raster |-> FillAll(raster, List([i \in 1 .. Len(results) |-> results[i].fill]))]

\* QuadTree.parse_compressed_file on a file at file_path holding content:
\* [error, raster]; raster is the value returned, <<>> when it raised.
parse_compressed_file(file_path, content) ==
    LET data  == split(content, "&")
        shape == split(data[1], ";")
        Fail(e) == [error |-> e, raster |-> <<>>]
    IN  IF ~endswith(file_path, Ext) THEN Fail("ValueError: Invalid file extension!")
        ELSE IF ~int(shape[1]).ok THEN Fail("ValueError")
        ELSE IF Len(shape) < 2 THEN Fail("IndexError")
        ELSE IF ~int(shape[2]).ok THEN Fail("ValueError")
        ELSE IF int(shape[1]).value < 0 \/ int(shape[2]).value < 0
             THEN Fail("ValueError")
        ELSE ParseLoop(Zeros(int(shape[1]).value, int(shape[2]).value), data)

----------------------------------------------------------------------------
(* Huffman coder (compression/text).                                       *)

\* HuffNode.char of a merged node (None); characters are one-character
\* strings.
NoChar == "None"

\* HuffNode.__init__; left and right are None (<<>>).
HuffNode(char, freq) ==
    [char |-> char, freq |-> freq, left |-> <<>>, right |-> <<>>]

\* HuffNode.__lt__, the criteria of the heap
lt(a, b) == a.freq < b.freq

\* HuffmanEncoding.get_char_frequency: the dict as the sequence of its
\* items <<char, freq>> in insertion order, after content[i .. ] was read
\* into items.
RECURSIVE CountFrom(_, _, _)
CountFrom(content, i, items) ==
    IF i > Len(content) THEN items
    ELSE IF \E j \in 1 .. Len(items) : items[j][1] = content[i]
    THEN CountFrom(content, i + 1,
                   List([j \in 1 .. Len(items) |->
                       IF items[j][1] = content[i]
                       THEN <<items[j][1], items[j][2] + 1>> ELSE items[j]]))
    ELSE CountFrom(content, i + 1, Append(items, <<content[i], 1>>))

get_char_frequency(content) == CountFrom(content, 1, <<>>)

\* data[i], data[j] = data[j], data[i], for the 0-based indices of the code
Swap(data, i, j) ==
    [data EXCEPT ![i + 1] = data[j + 1], ![j + 1] = data[i + 1]]

\* BinaryHeap.heapify(parent), parent a 0-based index: the data after it.
RECURSIVE heapify(_, _)
heapify(data, parent) ==
    LET l    == 2 * parent + 1
        r    == 2 * parent + 2
        top1 == IF l < Len(data) /\ lt(data[l + 1], data[parent + 1])
                THEN l ELSE parent
        top  == IF r < Len(data) /\ lt(data[r + 1], data[top1 + 1])
                THEN r ELSE top1
    IN  IF top # parent THEN heapify(Swap(data, top, parent), top) ELSE data

\* The loop of __bottom_up_heapify: heapify(i), heapify(i - 1), ..., heapify(0).
RECURSIVE HeapifyDownFrom(_, _)
HeapifyDownFrom(data, i) ==
    IF i < 0 THEN data ELSE HeapifyDownFrom(heapify(data, i), i - 1)

\* BinaryHeap.__init__(data): the heap's data.
BinaryHeap(data) ==
    IF Len(data) <= 1 THEN data
    ELSE HeapifyDownFrom(data, (Len(data) - 1) \div 2)

\* BinaryHeap.__get_parent_by_index; // rounds down, as \div does.
get_parent_by_index(index) == (index - 1) \div 2

\* The loop of BinaryHeap.push from position index.
RECURSIVE SiftUp(_, _)
SiftUp(data, index) ==
    LET parent_index == get_parent_by_index(index)
    IN  IF index > 0 /\ lt(data[index + 1], data[parent_index + 1])
        THEN SiftUp(Swap(data, index, parent_index), parent_index)
        ELSE data

\* BinaryHeap.push(value): the data after it.
push(data, value) == SiftUp(Append(data, value), Len(data))

\* BinaryHeap.pop(): the value returned (<<>> is None) and the data after it.
pop(data) ==
    IF Len(data) = 0 THEN [value |-> <<>>, data |-> data]
    ELSE [value |-> data[1],
          data  |-> heapify(SubSeq([data EXCEPT ![1] = data[Len(data)]],
                                   1, Len(data) - 1), 0)]

\* The loop of HuffmanEncoding.build_tree on heap data h and its final
\* "return h.pop()".
RECURSIVE MergeLoop(_)
MergeLoop(h) ==
    IF Len(h) > 1
    THEN LET p1 == pop(h)
             p2 == pop(p1.data)
             node1 == p1.value
             node2 == p2.value
             merged == [char  |-> NoChar,
                        freq  |-> IF node2 # <<>> THEN node1.freq + node2.freq
                                  ELSE node1.freq,
                        left  |-> node1,
                        right |-> node2]
         IN  MergeLoop(push(p2.data, merged))
    ELSE pop(h).value

\* HuffmanEncoding.build_tree(content): the root, <<>> for an empty content.
huffman_build_tree(content) ==
    LET freq_by_char == get_char_frequency(content)
        huff_nodes == List([i \in 1 .. Len(freq_by_char) |->
                          HuffNode(freq_by_char[i][1], freq_by_char[i][2])])
    IN  MergeLoop(BinaryHeap(huff_nodes))

\* code[char] = prefix on a dict modelled as a function
DictSet(code, char, prefix) == (char :> prefix) @@ code

\* HuffmanEncoding.build_codes(node, prefix, code): the dict after the call.
RECURSIVE build_codes(_, _, _)
build_codes(node, prefix, code) ==
    IF node = <<>> THEN code
    ELSE build_codes(node.right, Append(prefix, "1"),
             build_codes(node.left, Append(prefix, "0"),
                 IF node.char # NoChar
                 THEN DictSet(code, node.char, prefix) ELSE code))

\* HuffmanEncoding.__encode: ''.join(code[char] for char in text), from
\* position i on.
RECURSIVE EncodeFrom(_, _, _)
EncodeFrom(content, code, i) ==
    IF i > Len(content) THEN <<>>
    ELSE code[content[i]] \o EncodeFrom(content, code, i + 1)

encode(content, code) == EncodeFrom(content, code, 1)

\* The loop of HuffmanEncoding.__decode from bit i on, at node, with
\* decoded_text the characters found so far: [error, text].  Reading .left,
\* .right or .char of None raises AttributeError.
RECURSIVE DecodeFrom(_, _, _, _, _)
DecodeFrom(encoded_text, huff_root, i, node, decoded_text) ==
    IF i > Len(encoded_text) THEN [error |-> "none", text |-> decoded_text]
    ELSE IF node = <<>> THEN [error |-> "AttributeError", text |-> <<>>]
    ELSE LET next == IF encoded_text[i] = "0" THEN node.left ELSE node.right
         IN  IF next = <<>> THEN [error |-> "AttributeError", text |-> <<>>]
             ELSE IF next.char # NoChar
             THEN DecodeFrom(encoded_text, huff_root, i + 1, huff_root,
                             Append(decoded_text, next.char))
             ELSE DecodeFrom(encoded_text, huff_root, i + 1, next, decoded_text)

\* HuffmanEncoding.decoding / __decode
decoding(encoded_text, huff_root) ==
    DecodeFrom(encoded_text, huff_root, 1, huff_root, <<>>)

\* HuffmanEncoding.encoding(text): [enc, root]
encoding(content) ==
    LET huff_root == huffman_build_tree(content)
        codes == build_codes(huff_root, <<>>, <<>>)
    IN  [enc |-> encode(content, codes), root |-> huff_root]

----------------------------------------------------------------------------
(* Inputs of the operations.                                               *)

\* save_path and filename arguments of build_compressed_file; <<>> is the
\* default None (or an empty string).
SaveArgs == { [save_path |-> <<>>, filename |-> <<>>],
              [save_path |-> <<".", "/">>, filename |-> <<"a">>] }

\* Files handed to parse_compressed_file that no QuadTree wrote.
ForeignPaths == {<<"a">> \o Ext, <<"a", ".", "t", "x", "t">>}

ForeignHeaders == {<<"2", ";", "2">>, <<"1", ";", "3">>, <<"2">>, <<"x", ";", "2">>}

ForeignCoords ==
    { <<>>,
      <<"0", ";", "0", ";", "1", ";", "1", ";">>,
      <<"1", ";", "0", ";", "2", ";", "2", ";">>,
      <<"0", ";", "0", ";", "1", ";">>,
      <<"0", ";", "0", ";", "1", ";", "1", ";", "9", ";">>,
      <<"0", ";", "x", ";", "1", ";", "1", ";">>,
      <<"0", ";", ";", "1", ";", "1", ";">>,
      <<"0", ";", "0", ";", "-", "1", ";", " ", "2", ";">> }

ForeignColors ==
    { <<"5", ",", "6", ",", "7">>,
      <<"2", "5", "5", ",", "0", ",", "1", "0">>,
      <<"7">>,
      <<"5", ",", "6">>,
      <<"5", ",", "6", ",", "7", ",", "8">>,
      <<"5", ",", "x", ",", "7">>,
      <<>> }

ForeignRecords == {c \o k : c \in ForeignCoords, k \in ForeignColors}

\* A header followed by one record, or by a record of the expected form
\* and one more record.
ForeignTexts ==
    {h \o <<"&">> \o r : h \in ForeignHeaders, r \in ForeignRecords}
    \cup
    {h \o <<"&">> \o <<"0", ";", "0", ";", "1", ";", "1", ";", "1", ",", "2", ",", "3">>
       \o <<"&">> \o r : h \in ForeignHeaders, r \in ForeignRecords}

\* The texts handed to the Huffman coder: every text of at most MaxTextLen
\* characters over three characters, the empty text included.
Alphabet == {"a", "b", "c"}
Texts == UNION {[1 .. n -> Alphabet] : n \in 0 .. MaxTextLen}

----------------------------------------------------------------------------
(* The state machine.                                                      *)

\* The Huffman coder is not in use.
HuffmanIdle ==
    /\ text = <<>>
    /\ encoded = <<>>
    /\ tree = <<>>
    /\ decoded = <<>>

Init ==
    /\ \E input \in Inputs :
          /\ image = input[1]
          /\ threshold = input[2]
          /\ min_quad_size = input[3]
    /\ nodes = <<>>
    /\ pc = "new"
    /\ file = <<>>
    /\ rendered = <<>>
    /\ parsed = <<>>
    /\ error = "none"
    /\ HuffmanIdle

\* No QuadTree: only the static parse_compressed_file is used, on a file
\* found on disk.
InitParse ==
    /\ image = Zeros(0, 0)
    /\ threshold = None
    /\ min_quad_size = 1
    /\ nodes = <<>>
    /\ pc = "static"
    /\ file \in [path : ForeignPaths, content : ForeignTexts]
    /\ rendered = <<>>
    /\ parsed = <<>>
    /\ error = "none"
    /\ HuffmanIdle

\* No QuadTree and no file: a text is handed to the Huffman coder.
InitHuffman ==
    /\ image = Zeros(0, 0)
    /\ threshold = None
    /\ min_quad_size = 1
    /\ nodes = <<>>
    /\ pc = "text"
    /\ file = <<>>
    /\ rendered = <<>>
    /\ parsed = <<>>
    /\ error = "none"
    /\ text \in Texts
    /\ encoded = <<>>
    /\ tree = <<>>
    /\ decoded = <<>>

\* QuadTree.__init__: the root Quadrant covers the raster, then the whole
\* tree is built.
Construct ==
    /\ pc = "new"
    /\ nodes' = build_tree(image, threshold, min_quad_size, root,
                           Quadrant(0, 0, image.width, image.height, 0))
    /\ pc' = "built"
    /\ UNCHANGED <<image, threshold, min_quad_size, file, rendered, parsed,
                   error>>
    /\ UNCHANGED huffmanVars

\* QuadTree.get_compressed_image()
GetCompressedImage ==
    /\ pc = "built"
    /\ LET r == get_compressed_image(nodes, image)
       IN  /\ nodes' = r.heap
           /\ rendered' = r.raster
    /\ error' = "none"
    /\ UNCHANGED <<image, threshold, min_quad_size, pc, file, parsed>>
    /\ UNCHANGED huffmanVars

\* QuadTree.build_compressed_file(save_path, filename)
BuildCompressedFile(save_path, filename) ==
    /\ pc = "built"
    /\ IF save_path = <<>> \/ filename = <<>>
       THEN /\ error' = "ValueError: Please provide a save path and filename!"
            /\ UNCHANGED file
       ELSE IF LET quadrants == get_children(nodes)
               IN  \E i \in 1 .. Len(quadrants) : StrRaises(nodes[quadrants[i]])
       THEN /\ error' = "QuadrantRepresentationError"
            /\ UNCHANGED file
       ELSE /\ error' = "none"
            /\ file' = [path |-> path_join(save_path, filename \o Ext),
                        content |-> compressed_text(nodes, image)]
    /\ UNCHANGED <<image, threshold, min_quad_size, nodes, pc, rendered, parsed>>
    /\ UNCHANGED huffmanVars

\* QuadTree.parse_compressed_file(file.path)
ParseCompressedFile ==
    /\ pc \in {"built", "static"}
    /\ file # <<>>
    /\ LET r == parse_compressed_file(file.path, file.content)
       IN  /\ error' = r.error
           /\ parsed' = r.raster
    /\ UNCHANGED <<image, threshold, min_quad_size, nodes, pc, file, rendered>>
    /\ UNCHANGED huffmanVars

\* HuffmanEncoding.encoding(text)
Encoding ==
    /\ pc = "text"
    /\ LET r == encoding(text)
       IN  /\ encoded' = r.enc
           /\ tree' = r.root
    /\ pc' = "encoded"
    /\ error' = "none"
    /\ UNCHANGED <<image, threshold, min_quad_size, nodes, file, rendered,
                   parsed, text, decoded>>

\* HuffmanEncoding.decoding(encoded, tree), on the pair encoding returned
Decoding ==
    /\ pc = "encoded"
    /\ LET r == decoding(encoded, tree)
       IN  /\ decoded' = r.text
           /\ error' = r.error
    /\ pc' = "decoded"
    /\ UNCHANGED <<image, threshold, min_quad_size, nodes, file, rendered,
                   parsed, text, encoded, tree>>

Next ==
    \/ Construct
    \/ GetCompressedImage
    \/ \E args \in SaveArgs :
          BuildCompressedFile(args.save_path, args.filename)
    \/ ParseCompressedFile

Spec == Init /\ [][Next]_vars

NextParse == ParseCompressedFile

ParseSpec == InitParse /\ [][NextParse]_vars

NextHuffman ==
    \/ Encoding
    \/ Decoding

HuffmanSpec == InitHuffman /\ [][NextHuffman]_vars

----------------------------------------------------------------------------
(* Vocabulary of the properties.                                           *)

Built == pc = "built"

\* The leaves of the built tree, as Quadrant objects in traversal order.
Leaves == LET ids == get_children(nodes) IN [i \in 1 .. Len(ids) |-> nodes[ids[i]]]

IsLeaf(id) == nodes[id].children = <<>>

\* The pixels <<y, x>> of the rectangle of q.
Rect(q) == (q.y .. q.y + q.height - 1) \X (q.x .. q.x + q.width - 1)

\* The geometry of a Quadrant.
Geometry(q) == <<q.x, q.y, q.width, q.height, q.depth>>

\* The smallest k with 2^k >= n, for n >= 1.
CeilLog2(n) == CHOOSE k \in 0 .. n : 2 ^ k >= n /\ (k = 0 \/ 2 ^ (k - 1) < n)

IsUniform(img) == \A a, b \in DOMAIN img.px : img.px[a] = img.px[b]

\* The exceptions parse_compressed_file raises.
ParseErrors == {"ValueError: Invalid file extension!", "ValueError", "IndexError"}

\* The 2 x 2 raster with a black first row and a white second row.
BlackOverWhite == MakeImage("rows", 2, 2, Black, White)

\* The text 2;2&0;0;1;1;0,0,0&1;0;2;1;0,0,0&0;1;1;2;255,255,255&1;1;2;2;255,255,255
FourLeavesText ==
    <<"2", ";", "2", "&", "0", ";", "0", ";", "1", ";", "1", ";", "0", ",", "0", ",", "0", "&", "1", ";", "0", ";", "2", ";", "1", ";", "0", ",", "0", ",", "0", "&">>
    \o <<"0", ";", "1", ";", "1", ";", "2", ";", "2", "5", "5", ",", "2", "5", "5", ",", "2", "5", "5", "&", "1", ";", "1", ";", "2", ";", "2", ";", "2", "5", "5", ",", "2", "5", "5", ",", "2", "5", "5">>

\* The text 2;2&0;0;2;2;127,127,127
OneLeafText ==
    <<"2", ";", "2", "&", "0", ";", "0", ";", "2", ";", "2", ";", "1", "2", "7", ",", "1", "2", "7", ",", "1", "2", "7">>

----------------------------------------------------------------------------
(* C1 *)

\* C1: after construction the rectangles of the leaves are pairwise
\* disjoint, their union is the root rectangle [0, width) x [0, height), and
\* the areas of the leaves add up to width * height.
C1_LeavesPartitionRoot ==
    Built =>
        LET leaves == List(Leaves)
            n == Len(leaves)
        IN  /\ \A i, j \in 1 .. n : i # j => Rect(leaves[i]) \cap Rect(leaves[j]) = {}
            /\ UNION {Rect(leaves[i]) : i \in 1 .. n}
                   = (0 .. image.height - 1) \X (0 .. image.width - 1)
            /\ SumRange([i \in 1 .. n |-> get_area(leaves[i])], 1, n)
                   = image.width * image.height

\* A 5 x 3 raster that was split: leaves of odd and even sizes.
C1_Witness ==
    /\ Built
    /\ image.width = 5 /\ image.height = 3
    /\ Len(get_children(nodes)) >= 4

----------------------------------------------------------------------------
(* C2 *)

\* C2: on every built tree, whichever of get_compressed_image and
\* build_compressed_file is called first, build_compressed_file (given a
\* path and a file name) does not raise, parse_compressed_file of the file
\* it wrote does not raise, and the raster parsed equals the raster
\* get_compressed_image returns.
C2_RoundTripAllTrees ==
    Built =>
        /\ error # "QuadrantRepresentationError"
        /\ file # <<>> => error \notin ParseErrors
        /\ (file # <<>> /\ parsed # <<>>) =>
               parsed = get_compressed_image(nodes, image).raster

----------------------------------------------------------------------------
(* C3 *)

\* C3 as stated: the black-over-white 2 x 2 raster built with threshold 10
\* and min_quad_size 1 has four 1 x 1 leaves in the order TL, TR, BL, BR,
\* each with the color of its pixel, and the text written is
\* 2;2&0;0;1;1;0,0,0&1;0;2;1;0,0,0&0;1;1;2;255,255,255&1;1;2;2;255,255,255
C3_Original ==
    (Built /\ image = BlackOverWhite /\ threshold = 10 /\ min_quad_size = 1) =>
        /\ [i \in 1 .. Len(Leaves) |-> Geometry(Leaves[i])]
               = << <<0, 0, 1, 1, 1>>, <<1, 0, 1, 1, 1>>,
                    <<0, 1, 1, 1, 1>>, <<1, 1, 1, 1, 1>> >>
        /\ \A i \in 1 .. Len(Leaves) :
               Leaves[i].color = image.px[<<Leaves[i].y, Leaves[i].x>>]
        /\ file # <<>> => file.content = FourLeavesText

\* C3, amended: with min_quad_size 1 the root of that raster is not split
\* (floor(2 / 2) <= 1): the only leaf is the 2 x 2 root with the truncated
\* mean color (127, 127, 127) and the text written is
\* 2;2&0;0;2;2;127,127,127.  The four 1 x 1 leaves and the text of the
\* claim are what the same raster gives with threshold 10 and
\* min_quad_size 0.
C3_RootNotSplit ==
    /\ (Built /\ image = BlackOverWhite /\ threshold = 10 /\ min_quad_size = 1) =>
          /\ get_children(nodes) = <<root>>
          /\ Geometry(nodes[root]) = <<0, 0, 2, 2, 0>>
          /\ nodes[root].color = <<127, 127, 127>>
          /\ file # <<>> => file.content = OneLeafText
    /\ (Built /\ image = BlackOverWhite /\ threshold = 10 /\ min_quad_size = 0) =>
          /\ [i \in 1 .. Len(Leaves) |-> Geometry(Leaves[i])]
                 = << <<0, 0, 1, 1, 1>>, <<1, 0, 1, 1, 1>>,
                      <<0, 1, 1, 1, 1>>, <<1, 1, 1, 1, 1>> >>
          /\ \A i \in 1 .. Len(Leaves) :
                 Leaves[i].color = image.px[<<Leaves[i].y, Leaves[i].x>>]
          /\ file # <<>> => file.content = FourLeavesText

\* The file of the black-over-white raster, threshold 10, min_quad_size 1,
\* has been written.
C3_Witness ==
    /\ Built /\ image = BlackOverWhite /\ threshold = 10 /\ min_quad_size = 1
    /\ file # <<>>

----------------------------------------------------------------------------
(* C4 *)

\* C4 as stated: a 16 x 16 raster built with the threshold disabled and
\* min_quad_size 4 has exactly 16 leaves, each 4 x 4.
C4_Original ==
    (Built /\ image.width = 16 /\ image.height = 16
           /\ ~Truthy(threshold) /\ min_quad_size = 4) =>
        /\ Len(Leaves) = 16
        /\ \A i \in 1 .. Len(Leaves) : Leaves[i].width = 4 /\ Leaves[i].height = 4

\* C4, amended: a 16 x 16 raster built with the threshold disabled and
\* min_quad_size 4 is split once only (an 8 x 8 node would get children of
\* dimension 4 <= 4): it has exactly 4 leaves, each 8 x 8.
C4_FourLeavesOfEight ==
    (Built /\ image.width = 16 /\ image.height = 16
           /\ ~Truthy(threshold) /\ min_quad_size = 4) =>
        /\ Len(Leaves) = 4
        /\ \A i \in 1 .. Len(Leaves) : Leaves[i].width = 8 /\ Leaves[i].height = 8

C4_Witness ==
    /\ Built /\ image.width = 16 /\ image.height = 16
    /\ ~Truthy(threshold) /\ min_quad_size = 4
    /\ nodes[root].children # <<>>

----------------------------------------------------------------------------
(* C5 *)

\* C5: for every raster and configuration the depth of the built tree is at
\* most ceil(log2(max(width, height))), and every child is strictly narrower
\* and strictly lower than its parent.
C5_DepthBound ==
    Built =>
        /\ max_depth(nodes) <= CeilLog2(Max(image.width, image.height))
        /\ \A id \in DOMAIN nodes : \A i \in 1 .. Len(nodes[id].children) :
               /\ nodes[nodes[id].children[i]].width < nodes[id].width
               /\ nodes[nodes[id].children[i]].height < nodes[id].height

\* A 5 x 5 raster split down to depth 3 = ceil(log2(5)), with neither the
\* threshold nor the size floor in force.
C5_Witness ==
    /\ Built
    /\ image.width = 5 /\ image.height = 5
    /\ ~Truthy(threshold) /\ ~Truthy(min_quad_size)
    /\ max_depth(nodes) = 3

----------------------------------------------------------------------------
(* C6 *)

\* C6: for a raster of one color and a positive threshold the error of the
\* root is exactly 0 and the root is the only leaf, whatever min_quad_size.
C6_UniformIsOneLeaf ==
    (Built /\ IsUniform(image) /\ threshold > 0) =>
        /\ ErrorIsZero(nodes[root], image)
        /\ get_children(nodes) = <<root>>

\* A uniform 4 x 4 raster that the size floor would let split, built with a
\* positive threshold.
C6_Witness ==
    /\ Built /\ IsUniform(image) /\ threshold > 0
    /\ image.width = 4 /\ image.height = 4 /\ min_quad_size = 0
    /\ image.px[<<0, 0>>] = Teal

----------------------------------------------------------------------------
(* C7 *)

\* C7: a node with origin (x, y) and size w x h that is split has exactly
\* four children, in this order: (x, y) of floor(w/2) x floor(h/2),
\* (x + floor(w/2), y) of ceil(w/2) x floor(h/2), (x, y + floor(h/2)) of
\* floor(w/2) x ceil(h/2), (x + floor(w/2), y + floor(h/2)) of
\* ceil(w/2) x ceil(h/2), each one level deeper; a 5 x 5 root that is split
\* has children of sizes 2 x 2, 3 x 2, 2 x 3, 3 x 3.
C7_SplitGeometry ==
    Built =>
        /\ \A id \in DOMAIN nodes :
              LET n  == nodes[id]
                  fw == n.width \div 2
                  cw == n.width - (n.width \div 2)
                  fh == n.height \div 2
                  ch == n.height - (n.height \div 2)
              IN  n.children # <<>> =>
                      /\ Len(n.children) = 4
                      /\ [i \in 1 .. 4 |-> Geometry(nodes[n.children[i]])]
                           = << <<n.x, n.y, fw, fh, n.depth + 1>>,
                                <<n.x + fw, n.y, cw, fh, n.depth + 1>>,
                                <<n.x, n.y + fh, fw, ch, n.depth + 1>>,
                                <<n.x + fw, n.y + fh, cw, ch, n.depth + 1>> >>
        /\ (image.width = 5 /\ image.height = 5 /\ nodes[root].children # <<>>) =>
              [i \in 1 .. 4 |-> <<nodes[nodes[root].children[i]].width,
                                  nodes[nodes[root].children[i]].height>>]
                  = << <<2, 2>>, <<3, 2>>, <<2, 3>>, <<3, 3>> >>

\* A 5 x 5 root that was split.
C7_Witness ==
    /\ Built
    /\ image.width = 5 /\ image.height = 5
    /\ nodes[root].children # <<>>

----------------------------------------------------------------------------
(* C8 *)

\* Whether s reads as an integer.
IsIntegerText(s) == int(s).ok

\* A leaf record of the form x1;y1;x2;y2;r,g,b: exactly five fields, four
\* integers and a color of exactly three integers.
WellFormedRecord(quad_data) ==
    LET fields == split(quad_data, ";")
    IN  /\ Len(fields) = 5
        /\ \A i \in 1 .. 4 : IsIntegerText(fields[i])
        /\ LET comps == split(fields[5], ",")
           IN  /\ Len(comps) = 3
               /\ \A i \in 1 .. 3 : IsIntegerText(comps[i])

\* The leaf records of a text: everything after the header.
RecordsOf(content) == Tail(split(content, "&"))

\* C8: parse_compressed_file raises, and returns no raster, on every text
\* with a leaf record that is not of the form x1;y1;x2;y2;r,g,b: whenever it
\* returned a raster, every record of the text was well formed.
C8_MalformedRecordAborts ==
    (pc = "static" /\ parsed # <<>>) =>
        \A i \in 1 .. Len(RecordsOf(file.content)) :
            WellFormedRecord(RecordsOf(file.content)[i])

----------------------------------------------------------------------------
(* C9 *)

\* C9: with a configured threshold t >= 0, t = 0 included, every node whose
\* error over the source raster is at most t is a leaf, whatever its size
\* and min_quad_size.
C9_ThresholdAlwaysApplies ==
    (Built /\ threshold # None /\ threshold >= 0) =>
        \A id \in DOMAIN nodes :
            ErrorAtMost(nodes[id], image, threshold) => IsLeaf(id)

----------------------------------------------------------------------------
(* C10 *)

\* C10: with min_quad_size = k >= 1 a node of size w x h with
\* floor(w/2) <= k or floor(h/2) <= k is never split, every node but the
\* root is wider and higher than k, and with the threshold disabled a node
\* is split exactly when floor(w/2) > k and floor(h/2) > k.
C10_SizeFloorIsOr ==
    (Built /\ min_quad_size # None /\ min_quad_size >= 1) =>
        /\ \A id \in DOMAIN nodes :
              (nodes[id].width \div 2 <= min_quad_size
                  \/ nodes[id].height \div 2 <= min_quad_size) => IsLeaf(id)
        /\ \A id \in DOMAIN nodes :
              id # root => /\ nodes[id].width > min_quad_size
                           /\ nodes[id].height > min_quad_size
        /\ ~Truthy(threshold) =>
              \A id \in DOMAIN nodes :
                  ~IsLeaf(id) <=> /\ nodes[id].width \div 2 > min_quad_size
                                  /\ nodes[id].height \div 2 > min_quad_size

\* A 5 x 3 root with min_quad_size 1 and no threshold: only the height
\* breaches the floor (floor(5/2) = 2 > 1, floor(3/2) = 1 <= 1) and the
\* root stays a leaf.
C10_Witness ==
    /\ Built
    /\ image.width = 5 /\ image.height = 3
    /\ min_quad_size = 1 /\ ~Truthy(threshold)
    /\ IsLeaf(root)

----------------------------------------------------------------------------
(* C11 *)

\* C11: the Huffman coder is lossless: for every text, the empty text and
\* texts of one distinct character included, decoding the pair encoding
\* returned gives the text back and does not raise.
C11_HuffmanLossless ==
    pc = "decoded" => (error = "none" /\ decoded = text)

----------------------------------------------------------------------------
(* C12 *)

\* color is the truncated mean of each channel of q's region of img, stated
\* by the bounds of the quotient: color[ch] * area <= sum < (color[ch] + 1) * area.
IsTruncatedMean(q, img, color) ==
    /\ Len(color) = 3
    /\ \A ch \in 1 .. 3 :
          LET Chan(p) == p[ch]
              total == RegionSum(q, img, Chan)
          IN  /\ color[ch] * (q.width * q.height) <= total
              /\ total < (color[ch] + 1) * (q.width * q.height)

\* C12: built with a positive threshold, every node of the tree, leaf or
\* internal, holds a cached color that is the truncated mean of its region
\* of the image, from the end of construction on and through every later
\* operation (the cache is never overwritten), and no operation raises
\* QuadrantRepresentationError, build_compressed_file called first included.
C12_PositiveThresholdCachesEveryMean ==
    (Built /\ threshold > 0) =>
        /\ \A id \in DOMAIN nodes :
              IsTruncatedMean(nodes[id], image, nodes[id].color)
        /\ error # "QuadrantRepresentationError"

\* A tree with internal nodes, built with a positive threshold, with a leaf
\* that the size guards stopped (its error is above the threshold), whose
\* file was written by build_compressed_file before any
\* get_compressed_image call.
C12_Witness ==
    /\ Built
    /\ threshold > 0
    /\ nodes[root].children # <<>>
    /\ \E id \in DOMAIN nodes :
          /\ nodes[id].children = <<>>
          /\ ~ErrorAtMost(nodes[id], image, threshold)
    /\ rendered = <<>>
    /\ file # <<>>
    /\ error = "none"

====
